---- MODULE Spec2Model ----
(***************************************************************************)
(* Model of the to-do service: the in-memory store of routes/todo.py, the  *)
(* REST handlers of routes/todo.py, and the MCP dispatcher, tools and      *)
(* resource of main.py.                                                    *)
(*                                                                         *)
(* A field value is a sequence: Null is Python's None (JSON null), Some(x)  *)
(* is the value x of the field's declared type, OffType(kind, text) is a   *)
(* JSON value of another type.  A JSON object / keyword argument bag is a  *)
(* function whose DOMAIN is the set of keys supplied.  Timestamps are      *)
(* readings of the wall clock.                                             *)
(*                                                                         *)
(* A handler is an operator from the module globals it reads (a store      *)
(* record st) and its inputs to a result: status, body and the globals     *)
(* afterwards.  An action applies one handler to the current globals.  The *)
(* model is of the handler functions: what the framework does to a request *)
(* before the handler runs is modelled only where it decides whether the   *)
(* handler runs (the TodoCreate body), and what it does to a returned      *)
(* value only as its JSON form.                                            *)
(***************************************************************************)
EXTENDS Integers, Sequences, FiniteSets, TLC

\* ---- bounds ----
\* Total number of records the model lets the two front ends create when
\* requests carry every kind of value.
MaxCreates == 2

\* The ids requests ask for: one more than the creates above can issue.
\* It is also the number of creates of the specification SpecOrder, which
\* sends fewer kinds of value and builds a longer store.
MaxId == MaxCreates + 1

\* ---- values ----
Null == <<>>
Some(x) == <<x>>

\* A JSON value whose type is not the one the field declares: the string
\* "no" or the number 1 where a bool is declared, the number 5 where a str is.
OffType(kind, text) == <<kind, text>>

\* Title and description texts the requests draw from.
Titles == {"a", ""}
Descriptions == {"d"}
Ids == 1..MaxId

\* The empty JSON object / empty keyword bag.
EmptyBag == [k \in {} |-> Null]

\* d[k] if the key was supplied, else the default dflt (None).
GetOr(d, k, dflt) == IF k \in DOMAIN d THEN d[k] ELSE dflt

Max(a, b) == IF a > b THEN a ELSE b

VARIABLES
    todos_db,      \* routes.todo.todos_db (main.todos_db is the same list object)
    next_id,       \* routes.todo.next_id, the counter the REST create uses
    main_next_id,  \* main.next_id, the counter the create_todo tool uses
    max_issued     \* largest id any create has returned so far (0: none yet)

vars == <<todos_db, next_id, main_next_id, max_issued>>

\* The module globals as one value.
Store(db, rest_nid, main_nid) ==
    [todos_db |-> db, next_id |-> rest_nid, main_next_id |-> main_nid]

Cur == Store(todos_db, next_id, main_next_id)

\* ---- models.py ----
\* Todo(...) validates its fields: title: str is required and not None.
\* (The title arguments a create draws from are null or strings.)
TodoValid(title) == title # Null

\* Todo(id=.., title=.., description=.., completed=False, created_at=..)
Todo(id, title, description, created_at) ==
    [id |-> id, title |-> title, description |-> description,
     completed |-> Some(FALSE), created_at |-> created_at]

\* TodoCreate(**body): title: str required, description: Optional[str] = None.
TodoCreateValid(body) == "title" \in DOMAIN body /\ body["title"] # Null

\* todo.copy(update=update_data): the fields named in update_data are
\* overwritten, without validation; all others are kept.
CopyUpdate(todo, update_data) ==
    [f \in DOMAIN todo |-> IF f \in DOMAIN update_data THEN update_data[f] ELSE todo[f]]

\* datetime.isoformat() / the JSON encoding of a datetime.
isoformat(t) == <<"T", t>>

\* The dict a tool builds from a Todo, and the JSON form of a Todo returned
\* under response_model=Todo.
TodoDict(todo) ==
    [id |-> todo.id, title |-> todo.title, description |-> todo.description,
     completed |-> todo.completed, created_at |-> isoformat(todo.created_at)]

\* ---- the store ----
\* Index of the first record with this id, 0 if there is none
\* (for i, todo in enumerate(todos_db): if todo.id == id).
RECURSIVE FindFrom(_, _, _)
FindFrom(db, id, i) ==
    IF i > Len(db) THEN 0
    ELSE IF db[i].id = id THEN i
    ELSE FindFrom(db, id, i + 1)

Find(db, id) == FindFrom(db, id, 1)

\* list.pop(i)
Pop(db, i) == SubSeq(db, 1, i - 1) \o SubSeq(db, i + 1, Len(db))

Init ==
    /\ todos_db = <<>>
    /\ next_id = 1
    /\ main_next_id = 1
    /\ max_issued = 0

\* Number of creates that have succeeded.
Created == (next_id - 1) + (main_next_id - 1)

\* ---- requests ----
\* Marks a key the request does not carry.
Absent == <<"absent", "">>

\* What a request can say about each key: leave it out, or supply a value.
TitleArgs == {Absent, Null} \cup {Some(t) : t \in Titles}
DescriptionArgs == {Absent, Null} \cup {Some(d) : d \in Descriptions}
CompletedArgs == {Absent, Null, Some(TRUE), Some(FALSE)}
IdArgs == {Absent} \cup {Some(i) : i \in Ids}

\* The JSON object that carries exactly the keys that are not Absent.
Bag(i, t, d, c) ==
    LET v == [id |-> i, title |-> t, description |-> d, completed |-> c]
    IN [k \in {x \in DOMAIN v : v[x] # Absent} |-> v[k]]

\* The same object with an id.
WithId(b, ia) ==
    Bag(ia, GetOr(b, "title", Absent), GetOr(b, "description", Absent),
        GetOr(b, "completed", Absent))

\* The bodies of create requests and of update requests.
CreateBags == {Bag(Absent, ta, da, Absent) : ta \in TitleArgs, da \in DescriptionArgs}
UpdateBags ==
    {Bag(Absent, ta, da, ca) : ta \in TitleArgs, da \in DescriptionArgs, ca \in CompletedArgs}

\* The update bodies the transitions send: those that supply at most one
\* field (any other update is two or three of these in a row).
SentUpdateBags == {b \in UpdateBags : Cardinality(DOMAIN b) <= 1}

\* What the tool's update can be handed besides: args is Dict[str, Any] and
\* neither the call nor todo.copy(update=...) checks a value against the
\* type the parameter declares.  One value of another type stands for each
\* field the claims speak of.
AnyTitleArgs == TitleArgs \cup {OffType("num", "5")}
AnyCompletedArgs == CompletedArgs \cup {OffType("str", "no")}
AnyUpdateBags ==
    {Bag(Absent, ta, da, ca) :
        ta \in AnyTitleArgs, da \in DescriptionArgs, ca \in AnyCompletedArgs}

\* datetime.now(): a reading of the wall clock.  Two creates can read the
\* same value, and a later create can read an earlier value than the one
\* before it when the clock is set back.
Readings == {1, 2}

\* A reading for the calls that never read the clock.
AnyReading == CHOOSE t \in Readings : TRUE

\* What a handler gives: the HTTP status, the body, and the module globals
\* afterwards.
Result(status, body, st) == [status |-> status, body |-> body, st |-> st]

\* ---- routes/todo.py: the REST handlers ----
\* POST /todos/
rest_create_todo(st, body, t) ==
    IF TodoCreateValid(body)
    THEN LET new_todo == Todo(st.next_id, body["title"], GetOr(body, "description", Null), t)
         IN Result(201, TodoDict(new_todo),
                   [st EXCEPT !.todos_db = Append(@, new_todo), !.next_id = @ + 1])
    ELSE Result(422, <<"validation error for TodoCreate">>, st)

\* GET /todos/
rest_get_all_todos(st) ==
    Result(200, [i \in 1..Len(st.todos_db) |-> TodoDict(st.todos_db[i])], st)

\* raise HTTPException(status_code=404, detail="Todo not found")
RestNotFound(st) == Result(404, <<"Todo not found">>, st)

\* GET /todos/{todo_id}
rest_get_todo(st, todo_id) ==
    LET i == Find(st.todos_db, todo_id)
    IN IF i # 0 THEN Result(200, TodoDict(st.todos_db[i]), st)
       ELSE RestNotFound(st)

\* A plausible slip: the updated record is taken out and put at the end.
RestUpdateMovesToEnd(st, todo_id, body) ==
    LET i == Find(st.todos_db, todo_id)
    IN IF i # 0
       THEN LET updated_todo == CopyUpdate(st.todos_db[i], body)
            IN Result(200, TodoDict(updated_todo),
                      [st EXCEPT !.todos_db = Append(Pop(@, i), updated_todo)])
       ELSE RestNotFound(st)

\* PUT /todos/{todo_id}; update_data = todo_update.dict(exclude_unset=True)
\* is exactly the set of fields the body supplied.
rest_update_todo(st, todo_id, body) ==
    LET i == Find(st.todos_db, todo_id)
    IN IF i # 0
       THEN LET updated_todo == CopyUpdate(st.todos_db[i], body)
            IN Result(200, TodoDict(updated_todo),
                      [st EXCEPT !.todos_db[i] = updated_todo])
       ELSE RestNotFound(st)

\* f"Todo '{deleted_todo.title}' deleted successfully"
DeletedMessage(todo) == <<"Todo", todo.title, "deleted successfully">>

\* DELETE /todos/{todo_id}
rest_delete_todo(st, todo_id) ==
    LET i == Find(st.todos_db, todo_id)
    IN IF i # 0
       THEN Result(200, [message |-> DeletedMessage(st.todos_db[i])],
                   [st EXCEPT !.todos_db = Pop(@, i)])
       ELSE RestNotFound(st)

\* ---- main.py: the MCP tools ----
\* What calling a registered function gives: raised tells whether it raised,
\* value is the return value or str(e), st the module globals afterwards.
Returned(value, st) == [raised |-> FALSE, value |-> value, st |-> st]
Raised(msg, st) == [raised |-> TRUE, value |-> msg, st |-> st]

\* f"Todo with ID {id} not found"
NotFoundMessage(id) == <<"Todo with ID", id, "not found">>

\* The signatures of the registered functions: parameters without and with
\* a default.
Required(name) ==
    CASE name = "create_todo" -> {"title"}
      [] name = "list_todos" -> {}
      [] name = "get_todo" -> {"id"}
      [] name = "update_todo" -> {"id"}
      [] name = "delete_todo" -> {"id"}
      [] name = "todo_summary" -> {}

Optional(name) ==
    CASE name = "create_todo" -> {"description"}
      [] name = "update_todo" -> {"title", "description", "completed"}
      [] OTHER -> {}

\* f(**args) binds the keyword arguments: a TypeError if a key is no
\* parameter of f or a parameter without default is missing.
BindError(name, args) ==
    IF ~(DOMAIN args \subseteq Required(name) \cup Optional(name))
    THEN <<"TypeError", name, "got an unexpected keyword argument">>
    ELSE IF ~(Required(name) \subseteq DOMAIN args)
    THEN <<"TypeError", name, "missing a required argument">>
    ELSE Null

\* The int an id argument carries.
IdOf(args) == args["id"][1]

create_todo(st, args, t) ==
    LET title == args["title"]
        description == GetOr(args, "description", Null)
        new_todo == Todo(st.main_next_id, title, description, t)
    IN IF ~TodoValid(title)
       THEN Raised(<<"validation error for Todo">>, st)
       ELSE Returned(TodoDict(new_todo),
                     [st EXCEPT !.todos_db = Append(@, new_todo), !.main_next_id = @ + 1])

list_todos(st) ==
    Returned([i \in 1..Len(st.todos_db) |-> TodoDict(st.todos_db[i])], st)

get_todo(st, args) ==
    LET i == Find(st.todos_db, IdOf(args))
    IN IF i # 0
       THEN Returned(TodoDict(st.todos_db[i]), st)
       ELSE Raised(NotFoundMessage(IdOf(args)), st)

\* update_data of the tool: a parameter enters it if it is not None.
ToolUpdateData(args) ==
    [k \in {x \in {"title", "description", "completed"} : GetOr(args, x, Null) # Null}
        |-> args[k]]

update_todo(st, args) ==
    LET i == Find(st.todos_db, IdOf(args))
    IN IF i # 0
       THEN LET updated_todo == CopyUpdate(st.todos_db[i], ToolUpdateData(args))
            IN Returned(TodoDict(updated_todo), [st EXCEPT !.todos_db[i] = updated_todo])
       ELSE Raised(NotFoundMessage(IdOf(args)), st)

delete_todo(st, args) ==
    LET i == Find(st.todos_db, IdOf(args))
    IN IF i # 0
       THEN Returned([message |-> DeletedMessage(st.todos_db[i])],
                     [st EXCEPT !.todos_db = Pop(@, i)])
       ELSE Raised(NotFoundMessage(IdOf(args)), st)

\* ---- Python floats ----
\* A float is an IEEE 754 double: a significand of MantissaBits bits times a
\* power of two, every operation rounded to nearest, ties to even.  The
\* significand is kept as a sequence of limbs of LimbBits bits, most
\* significant first, under a leading limb that holds whatever is above
\* them; a float is [limbs, exp] with value limbs * 2^exp.
MantissaBits == 53
LimbBits == 13
Limb == 2 ^ LimbBits
Limbs == (MantissaBits - 1) \div LimbBits

Zero == [limbs |-> [i \in 1..(Limbs + 1) |-> 0], exp |-> 0]

\* Number of bits of n.
RECURSIVE BitLen(_)
BitLen(n) == IF n = 0 THEN 0 ELSE 1 + BitLen(n \div 2)

\* The integer the limbs spell.
RECURSIVE ToInt(_)
ToInt(limbs) ==
    IF limbs = <<>> THEN 0
    ELSE Limb * ToInt(SubSeq(limbs, 1, Len(limbs) - 1)) + limbs[Len(limbs)]

\* limbs + 1
RECURSIVE AddOne(_)
AddOne(limbs) ==
    LET n == Len(limbs)
    IN IF n = 1 \/ limbs[n] + 1 < Limb THEN [limbs EXCEPT ![n] = @ + 1]
       ELSE Append(AddOne(SubSeq(limbs, 1, n - 1)), 0)

\* limbs * m for a small integer m, exactly.
RECURSIVE MulFrom(_, _, _, _, _)
MulFrom(limbs, m, i, carry, acc) ==
    LET v == limbs[i] * m + carry
    IN IF i = 1 THEN <<v>> \o acc
       ELSE MulFrom(limbs, m, i - 1, v \div Limb, <<v % Limb>> \o acc)

MulSmall(limbs, m) == MulFrom(limbs, m, Len(limbs), 0, <<>>)

\* limbs with its d lowest bits dropped, 0 <= d < LimbBits.
ShiftRight(limbs, d) ==
    [i \in 1..Len(limbs) |->
        IF i = 1 THEN limbs[1] \div 2 ^ d
        ELSE (limbs[i - 1] % 2 ^ d) * 2 ^ (LimbBits - d) + limbs[i] \div 2 ^ d]

\* <<a * 2^k, k>> for the least k with a * 2^k >= b.
RECURSIVE LeadShift(_, _, _)
LeadShift(a, b, k) == IF a >= b THEN <<a, k>> ELSE LeadShift(2 * a, b, k + 1)

\* The next n limbs of the quotient r / b, after acc, and what is left over.
RECURSIVE QuotientLimbs(_, _, _, _)
QuotientLimbs(r, b, n, acc) ==
    IF n = 0 THEN <<acc, r>>
    ELSE QuotientLimbs((r * Limb) % b, b, n - 1, Append(acc, (r * Limb) \div b))

\* a / b for ints 0 <= a <= b, b > 0 (true division, correctly rounded).
FloatDiv(a, b) ==
    IF a = 0 THEN Zero
    ELSE LET s == LeadShift(a, b, 0)
             q == QuotientLimbs(s[1] % b, b, Limbs, <<s[1] \div b>>)
             up == 2 * q[2] > b \/ (2 * q[2] = b /\ q[1][Limbs + 1] % 2 = 1)
         IN [limbs |-> IF up THEN AddOne(q[1]) ELSE q[1],
             exp |-> 0 - s[2] - (MantissaBits - 1)]

\* x * m for a float x and a small int m.
FloatMul(x, m) ==
    IF x = Zero THEN Zero
    ELSE LET product == MulSmall(x.limbs, m)
             d == BitLen(product[1]) - 1
             kept == ShiftRight(product, d)
             dropped == product[Limbs + 1] % 2 ^ d
             up == /\ d > 0
                   /\ \/ 2 * dropped > 2 ^ d
                      \/ 2 * dropped = 2 ^ d /\ kept[Limbs + 1] % 2 = 1
         IN [limbs |-> IF up THEN AddOne(kept) ELSE kept, exp |-> x.exp + d]

\* The integer part of x * scale for 0 <= x * scale < 2^31: x cut to the
\* decimal places of scale.
FloatCut(x, scale) ==
    LET product == MulSmall(x.limbs, scale)
        places == 0 - x.exp
        whole == places \div LimbBits
    IN IF whole > Limbs THEN 0
       ELSE ToInt(ShiftRight(SubSeq(product, 1, Limbs + 1 - whole), places % LimbBits))

\* The model keeps completion_rate cut to four decimal places, as an integer
\* number of 1/RateScale percent.
RateScale == 10000

\* (completed_todos / total_todos * 100) if total_todos > 0 else 0
CompletionRate(completed_todos, total_todos) ==
    IF total_todos > 0
    THEN FloatCut(FloatMul(FloatDiv(completed_todos, total_todos), 100), RateScale)
    ELSE 0

\* `if todo.completed`: None, False, 0 and "" are falsy, any other value
\* is truthy.
Truthy(c) ==
    IF c = Null THEN FALSE
    ELSE IF Len(c) = 1 THEN c[1]
    ELSE IF c[1] = "str" THEN c[2] # ""
    ELSE c[2] # "0"

\* json.dumps(summary, indent=2) and its inverse.
json_dumps(v) == <<"json", v>>
json_loads(s) == s[2]

todo_summary(st) ==
    LET total_todos == Len(st.todos_db)
        completed_todos ==
            Cardinality({i \in 1..Len(st.todos_db) : Truthy(st.todos_db[i].completed)})
        pending_todos == total_todos - completed_todos
        summary == [total_todos |-> total_todos,
                    completed_todos |-> completed_todos,
                    pending_todos |-> pending_todos,
                    completion_rate |-> CompletionRate(completed_todos, total_todos)]
    IN Returned(json_dumps(summary), st)

\* mcp.tools and mcp.resources after the decorators have run.
Tools == {"create_todo", "list_todos", "get_todo", "update_todo", "delete_todo"}
Resources == {"todo_summary"}

\* self.tools[tool_name]["function"](**args) / self.resources[name]["function"]()
Invoke(name, args, st, t) ==
    IF BindError(name, args) # Null THEN Raised(BindError(name, args), st)
    ELSE CASE name = "create_todo" -> create_todo(st, args, t)
           [] name = "list_todos" -> list_todos(st)
           [] name = "get_todo" -> get_todo(st, args)
           [] name = "update_todo" -> update_todo(st, args)
           [] name = "delete_todo" -> delete_todo(st, args)
           [] name = "todo_summary" -> todo_summary(st)

\* ---- main.py: the dispatcher ----
\* A plausible slip: the operation's not-found is passed on as a 404.
DispatchNotFoundAs404(registry, name, args, st, t) ==
    IF name \notin registry
    THEN Result(404, <<name, "not found">>, st)
    ELSE LET r == Invoke(name, args, st, t)
         IN IF r.raised
            THEN Result(IF r.value[1] = "Todo with ID" THEN 404 ELSE 500, r.value, r.st)
            ELSE Result(200, [result |-> r.value], r.st)

\* call_tool / get_resource once the registry is named: 404 for a name the
\* registry does not hold, else the function is called; an exception becomes
\* a 500 carrying str(e), a return value is wrapped as {"result": value}.
Dispatch(registry, name, args, st, t) ==
    IF name \notin registry
    THEN Result(404, <<name, "not found">>, st)
    ELSE LET r == Invoke(name, args, st, t)
         IN IF r.raised
            THEN Result(500, r.value, r.st)
            ELSE Result(200, [result |-> r.value], r.st)

\* POST /mcp/tools/{tool_name}
call_tool(tool_name, args, st, t) == Dispatch(Tools, tool_name, args, st, t)

\* GET /mcp/resources/{resource_name}
get_resource(resource_name, st) ==
    Dispatch(Resources, resource_name, EmptyBag, st, AnyReading)

\* ---- the actions: one request served ----
\* The handler's result becomes the new contents of the module globals.
Serve(r) ==
    /\ todos_db' = r.st.todos_db
    /\ next_id' = r.st.next_id
    /\ main_next_id' = r.st.main_next_id

\* A create that succeeded issued an id.
Issue(created, id) ==
    max_issued' = IF created THEN Max(max_issued, id) ELSE max_issued

RestCreate(body, t) ==
    LET r == rest_create_todo(Cur, body, t)
    IN Serve(r) /\ Issue(r.status = 201, r.body.id)

RestGetAll ==
    Serve(rest_get_all_todos(Cur)) /\ UNCHANGED max_issued

RestGet(todo_id) ==
    Serve(rest_get_todo(Cur, todo_id)) /\ UNCHANGED max_issued

RestUpdate(todo_id, body) ==
    Serve(rest_update_todo(Cur, todo_id, body)) /\ UNCHANGED max_issued

RestDelete(todo_id) ==
    Serve(rest_delete_todo(Cur, todo_id)) /\ UNCHANGED max_issued

CallTool(tool_name, args, t) ==
    LET r == call_tool(tool_name, args, Cur, t)
    IN Serve(r) /\ Issue(tool_name = "create_todo" /\ r.status = 200, r.body.result.id)

GetResource(resource_name) ==
    Serve(get_resource(resource_name, Cur)) /\ UNCHANGED max_issued

\* The readings a call of the tool can get: create_todo alone reads the clock.
ReadingsOf(name) == IF name = "create_todo" THEN Readings ELSE {AnyReading}

\* The argument objects a tool request can carry: for create_todo the bodies
\* of the REST create, for update_todo objects with values of any type, each
\* with or without an id; for the other names an id or none, with or without
\* a stray title.
CreateToolBags == {WithId(b, ia) : b \in CreateBags, ia \in {Absent, Some(1)}}
UpdateToolBags == {WithId(b, ia) : b \in AnyUpdateBags, ia \in IdArgs}
OtherToolBags == {Bag(ia, ta, Absent, Absent) : ia \in IdArgs, ta \in {Absent, Some("a")}}

ToolBags(name) ==
    CASE name = "create_todo" -> CreateToolBags
      [] name = "update_todo" -> UpdateToolBags
      [] OTHER -> OtherToolBags

\* Those the transitions send: every create, and for the other names the
\* objects with at most one key besides the id.
SentUpdateToolBags == {b \in UpdateToolBags : Cardinality(DOMAIN b \ {"id"}) <= 1}

SentToolBags(name) ==
    IF name = "update_todo" THEN SentUpdateToolBags ELSE ToolBags(name)

\* Names that requests use and the registry does not hold as tools / resources.
UnknownTools == {"todo_summary", "no_such_tool"}
UnknownResources == {"list_todos", "no_such_resource"}
ToolNames == Tools \cup UnknownTools
ResourceNames == Resources \cup UnknownResources

\* The model stops creating after limit creates.
CanCreate(limit) == Created < limit

Next ==
    \/ CanCreate(MaxCreates) /\ \E body \in CreateBags, t \in Readings : RestCreate(body, t)
    \/ RestGetAll
    \/ \E id \in Ids : RestGet(id)
    \/ \E id \in Ids, body \in SentUpdateBags : RestUpdate(id, body)
    \/ \E id \in Ids : RestDelete(id)
    \/ \E name \in ToolNames :
          /\ name = "create_todo" => CanCreate(MaxCreates)
          /\ \E args \in SentToolBags(name), t \in ReadingsOf(name) : CallTool(name, args, t)
    \/ \E name \in ResourceNames : GetResource(name)

Spec == Init /\ [][Next]_vars

\* ---- a longer store ----
\* The same requests with fewer kinds of value, so that the store can grow
\* to MaxId records: creates with a title or none, updates that set
\* completed or nothing, one clock reading.
OrderCreateBags ==
    {Bag(Absent, ta, Absent, Absent) : ta \in {Absent} \cup {Some(t) : t \in Titles}}
OrderUpdateBags == {EmptyBag, Bag(Absent, Absent, Absent, Some(TRUE))}
OrderAnyUpdateBags == OrderUpdateBags \cup {Bag(Absent, Absent, Absent, OffType("str", "no"))}

OrderToolBags(name) ==
    CASE name = "create_todo" -> OrderCreateBags
      [] name = "update_todo" -> {WithId(b, ia) : b \in OrderAnyUpdateBags, ia \in IdArgs}
      [] OTHER -> {Bag(ia, Absent, Absent, Absent) : ia \in IdArgs}

OrderNext ==
    \/ CanCreate(MaxId) /\ \E body \in OrderCreateBags : RestCreate(body, AnyReading)
    \/ RestGetAll
    \/ \E id \in Ids : RestGet(id)
    \/ \E id \in Ids, body \in OrderUpdateBags : RestUpdate(id, body)
    \/ \E id \in Ids : RestDelete(id)
    \/ \E name \in ToolNames :
          /\ name = "create_todo" => CanCreate(MaxId)
          /\ \E args \in OrderToolBags(name) : CallTool(name, args, AnyReading)
    \/ \E name \in ResourceNames : GetResource(name)

SpecOrder == Init /\ [][OrderNext]_vars

\* ---- the two front ends, side by side ----
Via == {"rest", "mcp"}

IdBag(id) == Bag(Some(id), Absent, Absent, Absent)

CreateVia(via, st, body, t) ==
    IF via = "rest" THEN rest_create_todo(st, body, t)
    ELSE call_tool("create_todo", body, st, t)

ListVia(via, st) ==
    IF via = "rest" THEN rest_get_all_todos(st)
    ELSE call_tool("list_todos", EmptyBag, st, AnyReading)

GetVia(via, st, id) ==
    IF via = "rest" THEN rest_get_todo(st, id)
    ELSE call_tool("get_todo", IdBag(id), st, AnyReading)

UpdateVia(via, st, id, body) ==
    IF via = "rest" THEN rest_update_todo(st, id, body)
    ELSE call_tool("update_todo", WithId(body, Some(id)), st, AnyReading)

DeleteVia(via, st, id) ==
    IF via = "rest" THEN rest_delete_todo(st, id)
    ELSE call_tool("delete_todo", IdBag(id), st, AnyReading)

\* The request succeeded.
Ok(r) == r.status \in {200, 201}

\* The value a successful request carries: the REST body, the tool's result.
ValueOf(via, r) == IF via = "rest" THEN r.body ELSE r.body.result

\* The request failed because no record has the id: a 404 at the REST front
\* end, the tool's not-found message at the dispatcher.
IsNotFound(via, r, id) ==
    IF via = "rest" THEN r.status = 404
    ELSE r.status = 500 /\ r.body = NotFoundMessage(id)

\* The id of the record the step appended, when a step appended one.
Appended == Len(todos_db') = Len(todos_db) + 1
NewId == todos_db'[Len(todos_db')].id

\* db without its i-th record.
Without(db, i) == [j \in 1..(Len(db) - 1) |-> IF j < i THEN db[j] ELSE db[j + 1]]

\* ---- the claims ----

\* C1: each id a create assigns, through either front end, is strictly
\* greater than every id an earlier create assigned (so none is assigned
\* twice, also after deletes).
C1_IdsStrictlyIncrease ==
    [][Appended => NewId > max_issued]_vars

\* C2: the two front ends share one id counter: a create through either one
\* advances the counter the other one's next create reads, so every create
\* gets the id after those of all earlier creates of both front ends (REST
\* create gets 1, the following create_todo tool call gets 2).
C2_SharedCounter ==
    [][Appended => NewId = Created + 1]_vars

\* C3: in every reachable state, a create through either front end followed
\* at once by a get of the returned id through either front end succeeds and
\* returns a task equal to the created one in every field.
C3_CreateThenGet ==
    \A via1 \in Via, via2 \in Via, body \in CreateBags, t \in Readings :
        LET c == CreateVia(via1, Cur, body, t)
        IN Ok(c) =>
              LET g == GetVia(via2, c.st, ValueOf(via1, c).id)
              IN Ok(g) /\ ValueOf(via2, g) = ValueOf(via1, c)

\* C4: for every task in the store, an update of its id that supplies only
\* completed=true sets its completed flag and nothing else, an update that
\* supplies nothing returns it unchanged, and in both cases every other
\* record and the counters are unchanged; through REST and through the tool.
C4_UpdateCompletedOnly ==
    \A via \in Via : \A p \in 1..Len(todos_db) :
        LET todo == todos_db[p]
            done == [todo EXCEPT !.completed = Some(TRUE)]
            r == UpdateVia(via, Cur, todo.id, Bag(Absent, Absent, Absent, Some(TRUE)))
            e == UpdateVia(via, Cur, todo.id, EmptyBag)
        IN /\ Ok(r)
           /\ r.st = [Cur EXCEPT !.todos_db[p] = done]
           /\ ValueOf(via, r) = TodoDict(done)
           /\ Ok(e)
           /\ e.st = Cur
           /\ ValueOf(via, e) = TodoDict(todo)

\* C5: an update overwrites exactly the fields the caller supplied, a field
\* supplied as null with null, and keeps every absent field; through REST
\* and through the tool.
C5_NullVersusAbsent ==
    \A via \in Via, id \in Ids, body \in UpdateBags :
        LET p == Find(todos_db, id)
        IN p # 0 =>
              LET r == UpdateVia(via, Cur, id, body)
              IN /\ Ok(r)
                 /\ \A f \in DOMAIN todos_db[p] :
                       r.st.todos_db[p][f] =
                           IF f \in DOMAIN body THEN body[f] ELSE todos_db[p][f]

\* C6: in every reachable state, when a delete of an id succeeds (its message
\* names the removed task's title), a delete of the same id right after it
\* fails with not-found, whichever front ends issue the two.
C6_DeleteTwice ==
    \A via1 \in Via, via2 \in Via, id \in Ids :
        LET d1 == DeleteVia(via1, Cur, id)
        IN Ok(d1) =>
              /\ ValueOf(via1, d1).message = DeletedMessage(todos_db[Find(todos_db, id)])
              /\ IsNotFound(via2, DeleteVia(via2, d1.st, id), id)

\* C8: in every reachable state every record's title is present (not null)
\* and not empty.
C8_TitleNonEmpty ==
    \A i \in 1..Len(todos_db) :
        todos_db[i].title # Null /\ todos_db[i].title # Some("")

\* What C7 says of one tool invocation with result r, where f is what the
\* registered function gives.
ToolOutcome(name, args, r, f) ==
    /\ r.status \in {200, 404, 500}
    /\ (r.status = 404) <=> (name \notin Tools)
    /\ r.status = 404 => r.st = Cur
    /\ name \in Tools =>
          IF f.raised THEN r.status = 500 /\ r.body = f.value
          ELSE r.status = 200 /\ r.body = [result |-> f.value]
    /\ (/\ name \in {"get_todo", "update_todo", "delete_todo"}
        /\ "id" \in DOMAIN args
        /\ DOMAIN args \subseteq Required(name) \cup Optional(name)
        /\ \A i \in 1..Len(todos_db) : todos_db[i].id # IdOf(args))
       => /\ r.status = 500
          /\ r.body = NotFoundMessage(IdOf(args))
          /\ r.st = Cur

\* What C7 says of one resource invocation with result r.
ResourceOutcome(name, r) ==
    /\ r.status \in {200, 404, 500}
    /\ (r.status = 404) <=> (name \notin Resources)
    /\ r.status = 404 => r.st = Cur
    /\ name \in Resources => r.status = 200 /\ DOMAIN r.body = {"result"}

\* C7: a tool invocation ends in one of three ways: 404 exactly when the
\* name is not registered, and then the store is unchanged; 500 carrying the
\* operation's own message when the registered operation fails, a get, update
\* or delete of an id no record has included; otherwise 200 with the value
\* wrapped as {result: value}.  A resource invocation likewise, with no
\* arguments.
C7_DispatchOutcomes ==
    /\ \A name \in ToolNames : \A args \in SentToolBags(name), t \in ReadingsOf(name) :
          ToolOutcome(name, args, call_tool(name, args, Cur, t),
                      IF name \in Tools THEN Invoke(name, args, Cur, t) ELSE Null)
    /\ \A name \in ResourceNames :
          ResourceOutcome(name, get_resource(name, Cur))

\* A state after a create and a delete and another create, where the three
\* outcomes all occur: a get of the surviving id succeeds, a get of an id no
\* record has fails inside the tool, and an unregistered name is not found.
C7_Witness ==
    /\ Len(todos_db) = 1
    /\ Created = 2
    /\ \E id \in Ids :
          /\ todos_db[1].id # id
          /\ call_tool("get_todo", IdBag(id), Cur, AnyReading).status = 500
          /\ call_tool("get_todo", IdBag(todos_db[1].id), Cur, AnyReading).status = 200
          /\ call_tool("no_such_tool", EmptyBag, Cur, AnyReading).status = 404
          /\ get_resource("todo_summary", Cur).status = 200

\* The summary the todo_summary resource reports in the current state.
Summary == json_loads(get_resource("todo_summary", Cur).body.result)

\* Number of records in the store whose completed flag is true.
RECURSIVE CountCompleted(_)
CountCompleted(db) ==
    IF db = <<>> THEN 0
    ELSE (IF Head(db).completed = Some(TRUE) THEN 1 ELSE 0) + CountCompleted(Tail(db))

\* C9: in every reachable state the todo_summary resource reports total_todos
\* = number of records, completed_todos = number of records with
\* completed=true, pending_todos = total - completed, and completion_rate = 0
\* for an empty store and else completed * 100 / total (to within the last
\* of the four decimal places kept), between 0 and 100; the store and the
\* counters are unchanged.
C9_Summary ==
    LET r == get_resource("todo_summary", Cur)
        total == Len(todos_db)
        completed == CountCompleted(todos_db)
        rate == Summary.completion_rate
    IN /\ r.status = 200
       /\ r.st = Cur
       /\ Summary.total_todos = total
       /\ Summary.completed_todos = completed
       /\ Summary.pending_todos = total - completed
       /\ total = 0 => rate = 0
       /\ total > 0 =>
             /\ (rate - 1) * total <= completed * 100 * RateScale
             /\ completed * 100 * RateScale <= (rate + 1) * total
       /\ 0 <= rate /\ rate <= 100 * RateScale

\* Both front ends list exactly the records of the store, in the order of
\* the store.
ListsStoreInOrder ==
    \A via \in Via :
        LET r == ListVia(via, Cur)
            l == ValueOf(via, r)
        IN /\ Ok(r)
           /\ r.st = Cur
           /\ Len(l) = Len(todos_db)
           /\ \A i \in 1..Len(l) : l[i] = TodoDict(todos_db[i])

\* A create with result r appended one record.
AppendsAtEnd(r) ==
    Ok(r) =>
       /\ Len(r.st.todos_db) = Len(todos_db) + 1
       /\ SubSeq(r.st.todos_db, 1, Len(todos_db)) = todos_db

\* An update of id with result r replaced a record with that id in place.
ReplacesInPlace(id, r) ==
    Ok(r) =>
       /\ Len(r.st.todos_db) = Len(todos_db)
       /\ \E p \in 1..Len(todos_db) :
             /\ todos_db[p].id = id
             /\ \A q \in 1..Len(todos_db) : q # p => r.st.todos_db[q] = todos_db[q]
             /\ r.st.todos_db[p].id = id
             /\ r.st.todos_db[p].created_at = todos_db[p].created_at

\* A delete of id with result r removed one record with that id.
RemovesOne(id, r) ==
    Ok(r) =>
       \E p \in 1..Len(todos_db) :
          todos_db[p].id = id /\ r.st.todos_db = Without(todos_db, p)

\* C10: the store keeps insertion order: a list through either front end
\* returns the records of the store in the order of the store; a create
\* appends at the end; a successful update replaces the record at its
\* position and changes neither the length nor any other position; a
\* successful delete removes exactly one record, one with the id asked for,
\* and keeps the order of the others.  (The store starts empty, so the order
\* of the store is the order in which the surviving records were created.)
C10_InsertionOrder ==
    /\ ListsStoreInOrder
    /\ \A via \in Via, body \in CreateBags, t \in Readings :
          AppendsAtEnd(CreateVia(via, Cur, body, t))
    /\ \A via \in Via, id \in Ids, body \in SentUpdateBags :
          ReplacesInPlace(id, UpdateVia(via, Cur, id, body))
    /\ \A via \in Via, id \in Ids : RemovesOne(id, DeleteVia(via, Cur, id))

\* The REST front end created three records, the second was deleted and the
\* third updated: the first and the third survive, in that order, and they
\* are what both front ends list.
C10_Witness ==
    /\ next_id = 4
    /\ Len(todos_db) = 2
    /\ todos_db[1].id = 1
    /\ todos_db[2].id = 3
    /\ todos_db[2].completed = Some(TRUE)
    /\ ValueOf("rest", ListVia("rest", Cur)) = <<TodoDict(todos_db[1]), TodoDict(todos_db[2])>>
    /\ ValueOf("mcp", ListVia("mcp", Cur)) = <<TodoDict(todos_db[1]), TodoDict(todos_db[2])>>

====
